---- MODULE Spec2Model ----
(***************************************************************************)
(* Flexible job shop scheduling of patients on counters: the schedule      *)
(* constructor, the feasibility checker, the fitness evaluator and the     *)
(* generational search of GeneticAlgorithmFJSP (src/fjsp_solver_ga.py),    *)
(* the constraint enumeration of src/fjsp_constraint_calculator.py, and    *)
(* the check of the paper schedule of src/fjsp_solver_milp.py.             *)
(*                                                                         *)
(* A schedule is a sequence of <<patient, counter, start_time>> entries,   *)
(* as in the source.  Times are integers (the source draws real offsets;   *)
(* the model draws them from a finite set of integers in the same range).  *)
(***************************************************************************)
EXTENDS Integers, Sequences, FiniteSets, TLC

VARIABLES
    \* the instance (load_data)
    patients, counters, processing_times, precedence, operations,
    \* the search configuration (__init__)
    population_size, generations, elite_size, tournament_size,
    \* create_random_schedule, one placement at a time
    all_operations, schedule, counter_available_time, patient_completion_time,
    \* a schedule handed to is_feasible / calculate_fitness, and their answers
    candidate, verdict, fitness,
    \* solve
    population, fitnesses, best_fitness_history, best_overall_schedule,
    best_overall_fitness, generation, new_population, parent1, parent2,
    child1, child2, mutate_arg, result, error, pc,
    \* the number of mutate calls that fired so far (kept to bound the model)
    mutations,
    \* the constraint calculator: its module globals and what
    \* generate_all_constraints returned
    PATIENTS, COUNTERS, P_TIME, PRECEDENCE, constraints,
    \* the paper-schedule checker (src/fjsp_solver_milp.py): self.data, the
    \* schedule handed to verify_constraints, its locals and its answer
    paper_data, paper_schedule, counter_timeline, violations, paper_makespan,
    all_positive, constraints_ok

instance_vars == <<patients, counters, processing_times, precedence, operations>>
config_vars == <<population_size, generations, elite_size, tournament_size>>
construct_vars == <<all_operations, schedule, counter_available_time, patient_completion_time>>
check_vars == <<candidate, verdict, fitness>>
solve_vars == <<population, fitnesses, best_fitness_history, best_overall_schedule,
                best_overall_fitness, generation, new_population, parent1, parent2,
                child1, child2, mutate_arg, result, error>>
calculator_vars == <<PATIENTS, COUNTERS, P_TIME, PRECEDENCE, constraints>>
verifier_vars == <<paper_data, paper_schedule, counter_timeline, violations, paper_makespan,
                   all_positive, constraints_ok>>
vars == <<instance_vars, config_vars, construct_vars, check_vars, solve_vars, pc, mutations,
          calculator_vars, verifier_vars>>

----------------------------------------------------------------------------
(* Bounds of the model *)

\* largest start time of a hand-built candidate schedule
MaxStart == 4
\* largest population size explored
MaxPopulation == 2
\* largest elite count explored (may exceed the population size)
MaxElite == 2
\* largest generation count explored
MaxGenerations == 3
\* largest tournament size explored (may exceed the population size)
MaxTournament == 2
\* magnitude of the small mutation offsets explored
SmallAdjustment == 1
\* largest number of fitness evaluations of a run (population size * generations)
MaxEvaluations == 4
\* largest number of mutate calls of a run that fire
MaxMutations == 1

----------------------------------------------------------------------------
(* Values of the source *)

\* float('inf'): a fitness larger than every makespan the model can reach
INF == 1000000
\* random.uniform(-10, 10): the mutation offset is within [-MutationRange, MutationRange]
MutationRange == 10
\* no member of the population chosen yet (members are numbered from 1)
NoParent == 0
\* no exception raised
NoError == "none"
\* what solve has returned: nothing yet, or <<the dictionary of lines 219-224>>
NotReturned == <<>>
\* Python's None (no schedule has this value: every instance has two operations or more)
None == <<"None">>

Max(a, b) == IF a >= b THEN a ELSE b
Min(a, b) == IF a <= b THEN a ELSE b

----------------------------------------------------------------------------
(* Instances: what json.load returns.  processing_times of a patient is    *)
(* the JSON object as a sequence of <<counter, duration>> (key order is    *)
(* kept by the dict), precedence a sequence of <<prev, next>> edges.       *)

\* patient 1: counter 1 (2) then counter 2 (1); patient 2: counter 1 (1)
InstanceA ==
    [patients |-> <<1, 2>>, counters |-> <<1, 2>>,
     processing_times |-> (1 :> <<<<1, 2>>, <<2, 1>>>> @@ 2 :> <<<<1, 1>>>>),
     precedence |-> (1 :> <<<<1, 2>>>> @@ 2 :> <<>>)]

\* two patients crossing the same two counters in opposite directions
InstanceB ==
    [patients |-> <<1, 2>>, counters |-> <<1, 2>>,
     processing_times |-> (1 :> <<<<1, 1>>, <<2, 2>>>> @@ 2 :> <<<<2, 1>>, <<1, 1>>>>),
     precedence |-> (1 :> <<<<1, 2>>>> @@ 2 :> <<<<2, 1>>>>)]

\* a chain of three operations (two edges) and a patient with no precedence entry
InstanceC ==
    [patients |-> <<1, 2>>, counters |-> <<1, 2, 3>>,
     processing_times |-> (1 :> <<<<1, 1>>, <<2, 1>>, <<3, 2>>>> @@ 2 :> <<<<3, 1>>>>),
     precedence |-> (1 :> <<<<1, 2>>, <<2, 3>>>>)]

\* one patient, counter 1 (2) then counter 2 (1)
InstanceD ==
    [patients |-> <<1>>, counters |-> <<1, 2>>,
     processing_times |-> (1 :> <<<<1, 2>>, <<2, 1>>>>),
     precedence |-> (1 :> <<<<1, 2>>>>)]

Instances == {InstanceA, InstanceB, InstanceC, InstanceD}
\* the instances the search is run on
SearchInstances == {InstanceD}

\* load_data: self.processing_times, patient -> (counter -> duration);
\* a key repeated in the JSON object keeps its last value
LoadProcessingTimes(data) ==
    [p \in DOMAIN data.processing_times |->
        LET kv == data.processing_times[p]
            last(c) == CHOOSE i \in DOMAIN kv :
                          kv[i][1] = c /\ \A j \in DOMAIN kv : kv[j][1] = c => j <= i
        IN  [c \in {kv[i][1] : i \in DOMAIN kv} |-> kv[last(c)][2]]]

\* load_data: self.operations, patient -> list of the keys of its duration table
LoadOperations(data) ==
    [p \in {data.patients[i] : i \in DOMAIN data.patients} |->
        [i \in DOMAIN data.processing_times[p] |-> data.processing_times[p][i][1]]]

load_data(data) ==
    /\ patients = data.patients
    /\ counters = data.counters
    /\ processing_times = LoadProcessingTimes(data)
    /\ precedence = data.precedence
    /\ operations = LoadOperations(data)

\* self.precedence.get(patient, [])
PrecedenceOf(patient) ==
    IF patient \in DOMAIN precedence THEN precedence[patient] ELSE <<>>

----------------------------------------------------------------------------
(* create_random_schedule *)

\* lines 41-44: every (patient, counter) pair, patients in order, then keys in order
RECURSIVE Concat(_)
Concat(ss) == IF ss = <<>> THEN <<>> ELSE Head(ss) \o Concat(Tail(ss))

AllOperations ==
    Concat([i \in DOMAIN patients |->
              [j \in DOMAIN operations[patients[i]] |->
                  <<patients[i], operations[patients[i]][j]>>]])

\* line 45: the orders random.shuffle can leave the list in
Shuffles(ops) ==
    {[i \in DOMAIN ops |-> ops[f[i]]] :
        f \in {g \in [DOMAIN ops -> DOMAIN ops] : \A i, j \in DOMAIN ops : g[i] = g[j] => i = j}}

\* lines 52-57: the start after tightening by the edges of the patient, in order
RECURSIVE TightenByPrecedence(_, _, _, _, _)
TightenByPrecedence(edges, patient, counter, sched, earliest_start) ==
    IF edges = <<>> THEN earliest_start
    ELSE LET prev_counter == Head(edges)[1]
             next_counter == Head(edges)[2]
             prev_ops == SelectSeq(sched, LAMBDA s : s[1] = patient /\ s[2] = prev_counter)
             tightened ==
                 IF counter = next_counter /\ prev_ops /= <<>>
                 THEN Max(earliest_start, prev_ops[1][3] + processing_times[patient][prev_counter])
                 ELSE earliest_start
         IN  TightenByPrecedence(Tail(edges), patient, counter, sched, tightened)

\* a start that looks at the counter only
EarliestStartCounterOnly(patient, counter, sched, cat, pct) == cat[counter]

\* a start that looks at the patient and its predecessors only
EarliestStartPatientOnly(patient, counter, sched, cat, pct) ==
    TightenByPrecedence(PrecedenceOf(patient), patient, counter, sched, pct[patient])

\* lines 47-57
EarliestStart(patient, counter, sched, cat, pct) ==
    TightenByPrecedence(PrecedenceOf(patient), patient, counter, sched,
                        Max(cat[counter], pct[patient]))

\* a loop body that does not record the patient's completion time (line 62 left out)
PlaceOperationNoPatientUpdate(st, op) ==
    LET patient == op[1]
        counter == op[2]
        earliest_start == EarliestStart(patient, counter, st.schedule,
                                        st.counter_available_time, st.patient_completion_time)
        duration == processing_times[patient][counter]
    IN  [schedule |-> Append(st.schedule, <<patient, counter, earliest_start>>),
         counter_available_time |->
            [st.counter_available_time EXCEPT ![counter] = earliest_start + duration],
         patient_completion_time |-> st.patient_completion_time]

\* lines 46-62: one pass of the loop body, on the state st of the three locals
PlaceOperation(st, op) ==
    LET patient == op[1]
        counter == op[2]
        earliest_start == EarliestStart(patient, counter, st.schedule,
                                        st.counter_available_time, st.patient_completion_time)
        duration == processing_times[patient][counter]
    IN  [schedule |-> Append(st.schedule, <<patient, counter, earliest_start>>),
         counter_available_time |->
            [st.counter_available_time EXCEPT ![counter] = earliest_start + duration],
         patient_completion_time |->
            [st.patient_completion_time EXCEPT ![patient] = earliest_start + duration]]

\* lines 38-40
ConstructStart ==
    [schedule |-> <<>>,
     counter_available_time |-> [c \in {counters[i] : i \in DOMAIN counters} |-> 0],
     patient_completion_time |-> [p \in {patients[i] : i \in DOMAIN patients} |-> 0]]

RECURSIVE PlaceAll(_, _)
PlaceAll(st, order) ==
    IF order = <<>> THEN st ELSE PlaceAll(PlaceOperation(st, Head(order)), Tail(order))

\* create_random_schedule, for the order the shuffle produced
create_random_schedule(order) == PlaceAll(ConstructStart, order).schedule

----------------------------------------------------------------------------
(* is_feasible, calculate_makespan, calculate_fitness *)

\* list.sort(key=lambda x: x[2]): stable, ascending by start time
RECURSIVE InsertByStart(_, _)
InsertByStart(x, sorted) ==
    IF sorted = <<>> THEN <<x>>
    ELSE IF x[3] < Head(sorted)[3] THEN <<x>> \o sorted
    ELSE <<Head(sorted)>> \o InsertByStart(x, Tail(sorted))

RECURSIVE SortByStart(_)
SortByStart(s) ==
    IF s = <<>> THEN <<>>
    ELSE InsertByStart(s[Len(s)], SortByStart(SubSeq(s, 1, Len(s) - 1)))

\* is_feasible without the sort of line 84
CounterFeasibleUnsorted(sched, counter) ==
    LET counter_ops == SelectSeq(sched, LAMBDA s : s[2] = counter)
    IN  \A i \in 1..(Len(counter_ops) - 1) :
            LET end1 == counter_ops[i][3] + processing_times[counter_ops[i][1]][counter]
                start2 == counter_ops[i + 1][3]
            IN  ~(start2 < end1)

\* lines 83-92 for one counter: no operation starts before the one sorted before it ends
CounterFeasible(sched, counter) ==
    LET counter_ops == SortByStart(SelectSeq(sched, LAMBDA s : s[2] = counter))
    IN  \A i \in 1..(Len(counter_ops) - 1) :
            LET start1 == counter_ops[i][3]
                patient1 == counter_ops[i][1]
                duration1 == processing_times[patient1][counter]
                end1 == start1 + duration1
                start2 == counter_ops[i + 1][3]
            IN  ~(start2 < end1)

\* the edge test with <= in place of < at line 103: touching is rejected
EdgeFeasibleStrict(sched, patient, edge) ==
    LET prev_counter == edge[1]
        next_counter == edge[2]
        prev_ops == SelectSeq(sched, LAMBDA s : s[1] = patient /\ s[2] = prev_counter)
        next_ops == SelectSeq(sched, LAMBDA s : s[1] = patient /\ s[2] = next_counter)
    IN  (prev_ops /= <<>> /\ next_ops /= <<>>) =>
            LET prev_end == prev_ops[1][3] + processing_times[patient][prev_counter]
                next_start == next_ops[1][3]
            IN  ~(next_start <= prev_end)

\* lines 95-104 for one edge of one patient
EdgeFeasible(sched, patient, edge) ==
    LET prev_counter == edge[1]
        next_counter == edge[2]
        prev_ops == SelectSeq(sched, LAMBDA s : s[1] = patient /\ s[2] = prev_counter)
        next_ops == SelectSeq(sched, LAMBDA s : s[1] = patient /\ s[2] = next_counter)
    IN  (prev_ops /= <<>> /\ next_ops /= <<>>) =>
            LET prev_end == prev_ops[1][3] + processing_times[patient][prev_counter]
                next_start == next_ops[1][3]
            IN  ~(next_start < prev_end)

\* a check of the counters alone, without the edges of lines 94-104
is_feasible_counters_only(sched) ==
    \A i \in DOMAIN counters : CounterFeasible(sched, counters[i])

\* lines 81-106
is_feasible(sched) ==
    /\ \A i \in DOMAIN counters : CounterFeasible(sched, counters[i])
    /\ \A i \in DOMAIN patients :
          \A k \in DOMAIN PrecedenceOf(patients[i]) :
              EdgeFeasible(sched, patients[i], PrecedenceOf(patients[i])[k])

\* a checker that sorts the schedule it is given, by start time
schedule_sorted_by_check(sched) == SortByStart(sched)

\* the schedule handed to is_feasible as it is after the call: line 83 builds
\* counter_ops as a new list and line 84 sorts that list, lines 95-96 build new
\* lists too; the argument is only read
schedule_after_check(sched) == sched

\* lines 74-79: the running maximum, starting from 0
RECURSIVE MaxCompletion(_, _)
MaxCompletion(sched, max_completion) ==
    IF sched = <<>> THEN max_completion
    ELSE LET e == Head(sched)
             completion == e[3] + processing_times[e[1]][e[2]]
         IN  MaxCompletion(Tail(sched), Max(max_completion, completion))

\* a makespan that takes the latest start in place of the latest completion
calculate_makespan_of_starts(sched) ==
    IF sched = <<>> THEN INF
    ELSE CHOOSE m \in {sched[i][3] : i \in DOMAIN sched} :
            \A i \in DOMAIN sched : sched[i][3] <= m

\* lines 71-79
calculate_makespan(sched) ==
    IF sched = <<>> THEN INF ELSE MaxCompletion(sched, 0)

\* calculate_fitness without the feasibility test of line 66
calculate_fitness_unchecked(sched) == calculate_makespan(sched)

\* lines 65-69
calculate_fitness(sched) ==
    IF ~is_feasible(sched) THEN INF ELSE calculate_makespan(sched)

----------------------------------------------------------------------------
(* tournament_selection, order_crossover, mutate *)

\* line 110: random.sample(range(n), k), an ordered draw of k distinct indices
\* (indices are 1-based here); no such draw exists when k > n (ValueError)
Samples(n, k) ==
    {t \in [1..k -> 1..n] : \A i, j \in 1..k : t[i] = t[j] => i = j}

\* list.index(min(list)): the first position holding the least value
IndexOfMin(values) ==
    CHOOSE i \in DOMAIN values :
        /\ \A j \in DOMAIN values : values[i] <= values[j]
        /\ \A j \in DOMAIN values : values[j] = values[i] => i <= j

\* tournament_selection returning the first member drawn, whatever its fitness
tournament_selection_first(fits, tournament_indices) == tournament_indices[1]

\* lines 111-113: the index of the winner, for the draw tournament_indices
tournament_selection(fits, tournament_indices) ==
    LET tournament_fitnesses == [i \in DOMAIN tournament_indices |-> fits[tournament_indices[i]]]
    IN  tournament_indices[IndexOfMin(tournament_fitnesses)]

\* the schedules create_random_schedule can return
RandomSchedules == {create_random_schedule(o) : o \in Shuffles(AllOperations)}

\* a recombination that gives each child the head of one parent and the tail
\* of the other
order_crossover_one_point(p1, p2) ==
    {[child1 |-> SubSeq(p1, 1, 1) \o SubSeq(p2, 2, Len(p2)),
      child2 |-> SubSeq(p2, 1, 1) \o SubSeq(p1, 2, Len(p1)),
      parent1 |-> p1, parent2 |-> p2]}

\* a recombination that swaps the tails of the two parents in place and
\* returns the parents themselves
order_crossover_in_place(p1, p2) ==
    LET mixed1 == SubSeq(p1, 1, 1) \o SubSeq(p2, 2, Len(p2))
        mixed2 == SubSeq(p2, 1, 1) \o SubSeq(p1, 2, Len(p1))
    IN  {[child1 |-> mixed1, child2 |-> mixed2, parent1 |-> mixed1, parent2 |-> mixed2]}

\* lines 117-123: what order_crossover can return (child1, child2), with its
\* two arguments as they are after the call (parent1, parent2): deep copies of
\* the parents, or two fresh random schedules
order_crossover(p1, p2) ==
    {[child1 |-> children[1], child2 |-> children[2], parent1 |-> p1, parent2 |-> p2] :
        children \in {<<p1, p2>>} \cup (RandomSchedules \X RandomSchedules)}

\* line 134: the offsets the model draws
Adjustments ==
    {-MutationRange, -SmallAdjustment, SmallAdjustment, MutationRange}

\* mutate without the clamp of line 135
mutate_unclamped(sched, fires, idx, adjustment) ==
    IF ~fires \/ Len(sched) = 0 THEN [ret |-> sched, arg |-> sched]
    ELSE [ret |-> [sched EXCEPT ![idx] = <<sched[idx][1], sched[idx][2], sched[idx][3] + adjustment>>],
          arg |-> sched]

\* mutate without the copy of line 129: the schedule passed in is changed
mutate_in_place(sched, fires, idx, adjustment) ==
    IF ~fires \/ Len(sched) = 0 THEN [ret |-> sched, arg |-> sched]
    ELSE LET mutated == [sched EXCEPT ![idx] =
                            <<sched[idx][1], sched[idx][2], Max(0, sched[idx][3] + adjustment)>>]
         IN  [ret |-> mutated, arg |-> mutated]

\* a mutation that moves every start time by the adjustment
mutate_all_starts(sched, fires, idx, adjustment) ==
    IF ~fires \/ Len(sched) = 0 THEN [ret |-> sched, arg |-> sched]
    ELSE [ret |-> [i \in DOMAIN sched |->
                      <<sched[i][1], sched[i][2], Max(0, sched[i][3] + adjustment)>>],
          arg |-> sched]

\* lines 125-137, for the draws fires (random.random() <= mutation_rate), idx and
\* adjustment: ret is the schedule returned, arg the schedule passed in as it is
\* after the call
mutate(sched, fires, idx, adjustment) ==
    IF ~fires THEN [ret |-> sched, arg |-> sched]
    ELSE IF Len(sched) > 0
         THEN LET patient == sched[idx][1]
                  counter == sched[idx][2]
                  start_time == sched[idx][3]
                  new_start == Max(0, start_time + adjustment)
              IN  [ret |-> [sched EXCEPT ![idx] = <<patient, counter, new_start>>],
                   arg |-> sched]
         ELSE [ret |-> sched, arg |-> sched]

----------------------------------------------------------------------------
(* convert_to_readable_format, calculate_patient_processing_times *)

PatientSet == {patients[i] : i \in DOMAIN patients}

\* the conversion without the sort of line 231
convert_to_readable_format_unsorted(sched) ==
    [patient \in PatientSet |->
        LET patient_ops == SelectSeq(sched, LAMBDA s : s[1] = patient)
        IN  [i \in DOMAIN patient_ops |->
                LET counter == patient_ops[i][2]
                    start_time == patient_ops[i][3]
                    duration == processing_times[patient][counter]
                IN  [counter |-> counter, start |-> start_time,
                     duration |-> duration, end |-> start_time + duration]]]

\* lines 226-243
convert_to_readable_format(sched) ==
    [patient \in PatientSet |->
        LET patient_ops == SortByStart(SelectSeq(sched, LAMBDA s : s[1] = patient))
        IN  [i \in DOMAIN patient_ops |->
                LET counter == patient_ops[i][2]
                    start_time == patient_ops[i][3]
                    duration == processing_times[patient][counter]
                IN  [counter |-> counter, start |-> start_time,
                     duration |-> duration, end |-> start_time + duration]]]

RECURSIVE SumDurations(_, _)
SumDurations(patient, ops) ==
    IF ops = <<>> THEN 0
    ELSE processing_times[patient][Head(ops)[2]] + SumDurations(patient, Tail(ops))

\* lines 245-254
calculate_patient_processing_times(sched) ==
    [patient \in PatientSet |->
        SumDurations(patient, SelectSeq(sched, LAMBDA s : s[1] = patient))]

----------------------------------------------------------------------------
(* Initial states *)

Configured ==
    /\ population_size \in 1..MaxPopulation
    /\ generations \in 1..MaxGenerations
    /\ elite_size \in 0..MaxElite
    /\ tournament_size \in 1..MaxTournament
    /\ population_size * generations <= MaxEvaluations

\* the configuration is read by solve only; it is left at 0 where solve does not run
NotConfigured ==
    /\ population_size = 0
    /\ generations = 0
    /\ elite_size = 0
    /\ tournament_size = 0

\* the paper-schedule checker is not in use
VerifierIdle ==
    /\ paper_data = <<>>
    /\ paper_schedule = <<>>
    /\ counter_timeline = <<>>
    /\ violations = <<>>
    /\ paper_makespan = 0
    /\ all_positive = None
    /\ constraints_ok = None

\* the constraint calculator is not in use
CalculatorIdle ==
    /\ PATIENTS = <<>>
    /\ COUNTERS = <<>>
    /\ P_TIME = <<>>
    /\ PRECEDENCE = <<>>
    /\ constraints = <<>>

ConstructIdle ==
    /\ all_operations = <<>>
    /\ schedule = <<>>
    /\ counter_available_time = <<>>
    /\ patient_completion_time = <<>>

CheckIdle ==
    /\ candidate = None
    /\ verdict = None
    /\ fitness = None

SolveIdle ==
    /\ population = <<>>
    /\ fitnesses = <<>>
    /\ best_fitness_history = <<>>
    /\ best_overall_schedule = None
    /\ best_overall_fitness = INF
    /\ generation = 0
    /\ new_population = <<>>
    /\ parent1 = NoParent
    /\ parent2 = NoParent
    /\ child1 = None
    /\ child2 = None
    /\ mutate_arg = None
    /\ result = NotReturned
    /\ error = NoError

----------------------------------------------------------------------------
(* create_random_schedule, one loop pass per step *)

\* an instance is loaded and the operations are shuffled (lines 38-45)
InitConstruct ==
    /\ \E data \in Instances : load_data(data)
    /\ NotConfigured
    /\ all_operations \in Shuffles(AllOperations)
    /\ schedule = ConstructStart.schedule
    /\ counter_available_time = ConstructStart.counter_available_time
    /\ patient_completion_time = ConstructStart.patient_completion_time
    /\ CheckIdle
    /\ SolveIdle
    /\ pc = "place"
    /\ mutations = 0
    /\ CalculatorIdle
    /\ VerifierIdle

\* lines 46-62: the next operation of the shuffled list is placed
Place ==
    /\ pc = "place"
    /\ Len(schedule) < Len(all_operations)
    /\ LET st == PlaceOperation(
                    [schedule |-> schedule,
                     counter_available_time |-> counter_available_time,
                     patient_completion_time |-> patient_completion_time],
                    all_operations[Len(schedule) + 1])
       IN  /\ schedule' = st.schedule
           /\ counter_available_time' = st.counter_available_time
           /\ patient_completion_time' = st.patient_completion_time
    /\ UNCHANGED <<verifier_vars, calculator_vars, mutations, instance_vars, config_vars, all_operations, check_vars, solve_vars, pc>>

\* line 63: the schedule is returned
ReturnSchedule ==
    /\ pc = "place"
    /\ Len(schedule) = Len(all_operations)
    /\ candidate' = schedule
    /\ pc' = "built"
    /\ UNCHANGED <<verifier_vars, calculator_vars, mutations, instance_vars, config_vars, construct_vars, verdict, fitness, solve_vars>>

\* is_feasible(candidate)
CheckFeasible ==
    /\ pc = "built"
    /\ verdict' = is_feasible(candidate)
    /\ candidate' = schedule_after_check(candidate)
    /\ pc' = "judged"
    /\ UNCHANGED <<verifier_vars, calculator_vars, mutations, instance_vars, config_vars, construct_vars, fitness, solve_vars>>

\* calculate_fitness(candidate)
CalculateFitness ==
    /\ pc = "judged"
    /\ fitness' = calculate_fitness(candidate)
    \* line 66: calculate_fitness hands the schedule to is_feasible
    /\ candidate' = schedule_after_check(candidate)
    /\ pc' = "scored"
    /\ UNCHANGED <<verifier_vars, calculator_vars, mutations, instance_vars, config_vars, construct_vars, verdict, solve_vars>>

NextConstruct == Place \/ ReturnSchedule \/ CheckFeasible \/ CalculateFitness

SpecConstruct == InitConstruct /\ [][NextConstruct]_vars

----------------------------------------------------------------------------
(* load_data on instance files that break the instance rules *)

\* patient 1 has an edge from counter 3, which its duration table does not hold
MalformedEdge ==
    [patients |-> <<1, 2>>, counters |-> <<1, 2, 3>>,
     processing_times |-> (1 :> <<<<1, 2>>, <<2, 1>>>> @@ 2 :> <<<<1, 1>>>>),
     precedence |-> (1 :> <<<<1, 2>>, <<3, 2>>>> @@ 2 :> <<>>)]

\* a duration of 0
MalformedZero ==
    [patients |-> <<1, 2>>, counters |-> <<1, 2>>,
     processing_times |-> (1 :> <<<<1, 0>>, <<2, 1>>>> @@ 2 :> <<<<1, 1>>>>),
     precedence |-> (1 :> <<<<1, 2>>>> @@ 2 :> <<>>)]

\* a negative duration
MalformedNegative ==
    [patients |-> <<1, 2>>, counters |-> <<1, 2>>,
     processing_times |-> (1 :> <<<<1, 2>>, <<2, -1>>>> @@ 2 :> <<<<1, 1>>>>),
     precedence |-> (1 :> <<<<1, 2>>>> @@ 2 :> <<>>)]

\* durations and an edge for patient 3, who is not in the patient list
MalformedPatient ==
    [patients |-> <<1, 2>>, counters |-> <<1, 2>>,
     processing_times |-> (1 :> <<<<1, 2>>, <<2, 1>>>> @@ 2 :> <<<<1, 1>>>>
                           @@ 3 :> <<<<1, 1>>, <<2, 1>>>>),
     precedence |-> (1 :> <<<<1, 2>>>> @@ 2 :> <<>> @@ 3 :> <<<<1, 2>>>>)]

MalformedInstances == {MalformedEdge, MalformedZero, MalformedNegative, MalformedPatient}

\* the solver after load_data of such a file; load_data (lines 24-35) checks nothing
InitMalformed ==
    /\ \E data \in MalformedInstances : load_data(data)
    /\ NotConfigured
    /\ all_operations \in Shuffles(AllOperations)
    /\ schedule = ConstructStart.schedule
    /\ counter_available_time = ConstructStart.counter_available_time
    /\ patient_completion_time = ConstructStart.patient_completion_time
    /\ CheckIdle
    /\ SolveIdle
    /\ pc = "place"
    /\ mutations = 0
    /\ CalculatorIdle
    /\ VerifierIdle

SpecMalformed == InitMalformed /\ [][NextConstruct]_vars

----------------------------------------------------------------------------
(* is_feasible and calculate_fitness on any complete schedule *)

\* every schedule with one entry per operation, in any order, starts in 0..MaxStart
CompleteSchedules ==
    {[i \in DOMAIN o |-> <<o[i][1], o[i][2], t[i]>>] :
        o \in Shuffles(AllOperations), t \in [DOMAIN AllOperations -> 0..MaxStart]}

InitCheck ==
    /\ \E data \in Instances : load_data(data)
    /\ NotConfigured
    /\ ConstructIdle
    /\ candidate \in CompleteSchedules
    /\ verdict = None
    /\ fitness = None
    /\ SolveIdle
    /\ pc = "built"
    /\ mutations = 0
    /\ CalculatorIdle
    /\ VerifierIdle

NextCheck == CheckFeasible \/ CalculateFitness

SpecCheck == InitCheck /\ [][NextCheck]_vars

----------------------------------------------------------------------------
(* solve *)

\* sorted(range(len(fits)), key=lambda i: fits[i]): stable, ascending by fitness
RECURSIVE InsertByFitness(_, _, _)
InsertByFitness(i, sorted, fits) ==
    IF sorted = <<>> THEN <<i>>
    ELSE IF fits[i] < fits[Head(sorted)] THEN <<i>> \o sorted
    ELSE <<Head(sorted)>> \o InsertByFitness(i, Tail(sorted), fits)

RECURSIVE SortedIndices(_, _)
SortedIndices(fits, n) ==
    IF n = 0 THEN <<>> ELSE InsertByFitness(n, SortedIndices(fits, n - 1), fits)

\* the elite taken by position, without the sort of line 174
EliteIndicesUnsorted(fits, elite) ==
    [k \in 1..Min(elite, Len(fits)) |-> k]

\* line 174: sorted(...)[:elite_size]
EliteIndices(fits, elite) ==
    SubSeq(SortedIndices(fits, Len(fits)), 1, Min(elite, Len(fits)))

\* the last population_size members kept instead of the first
TruncateTail(new_pop, size) ==
    SubSeq(new_pop, Len(new_pop) - Min(size, Len(new_pop)) + 1, Len(new_pop))

\* no truncation
TruncateNone(new_pop, size) == new_pop

\* line 188: new_population[:population_size]
Truncate(new_pop, size) == SubSeq(new_pop, 1, Min(size, Len(new_pop)))

\* the overall best replaced on a tie as well
ImprovesOrTies(best_gen_fitness, best_fitness) == best_gen_fitness <= best_fitness

\* line 165: the overall best is replaced
Improves(best_gen_fitness, best_fitness) == best_gen_fitness < best_fitness

InitSolve ==
    /\ \E data \in SearchInstances : load_data(data)
    /\ Configured
    /\ ConstructIdle
    /\ CheckIdle
    /\ SolveIdle
    /\ pc = "start"
    /\ mutations = 0
    /\ CalculatorIdle
    /\ VerifierIdle

\* lines 152-156
InitializePopulation ==
    /\ pc = "start"
    /\ population' \in [1..population_size -> RandomSchedules]
    /\ best_fitness_history' = <<>>
    /\ best_overall_schedule' = None
    /\ best_overall_fitness' = INF
    /\ pc' = "evaluate"
    /\ UNCHANGED <<verifier_vars, calculator_vars, mutations, instance_vars, config_vars, construct_vars, check_vars, fitnesses,
                   generation, new_population, parent1, parent2, child1, child2,
                   mutate_arg, result, error>>

\* Evaluate with line 169 moved inside the test of line 165: the history grows
\* only when the overall best improves
EvaluateHistoryOnImprovement ==
    /\ pc = "evaluate"
    /\ LET fits == [i \in DOMAIN population |-> calculate_fitness(population[i])]
           best_gen_idx == IndexOfMin(fits)
           best_gen_fitness == fits[best_gen_idx]
       IN  /\ fitnesses' = fits
           /\ IF best_gen_fitness < best_overall_fitness
              THEN /\ best_overall_fitness' = best_gen_fitness
                   /\ best_overall_schedule' = population[best_gen_idx]
                   /\ best_fitness_history' = Append(best_fitness_history, best_gen_fitness)
              ELSE UNCHANGED <<best_overall_fitness, best_overall_schedule, best_fitness_history>>
    /\ population' = [i \in DOMAIN population |-> schedule_after_check(population[i])]
    /\ pc' = "elitism"
    /\ UNCHANGED <<verifier_vars, calculator_vars, mutations, instance_vars, config_vars, construct_vars, check_vars,
                   generation, new_population, parent1, parent2, child1, child2,
                   mutate_arg, result, error>>

\* an evaluation that computes the fitnesses in generation 0 only and reuses
\* them afterwards
EvaluateStale ==
    /\ pc = "evaluate"
    /\ LET fits == IF generation = 0
                   THEN [i \in DOMAIN population |-> calculate_fitness(population[i])]
                   ELSE fitnesses
           best_gen_idx == IndexOfMin(fits)
           best_gen_fitness == fits[best_gen_idx]
           best_gen_schedule == population[best_gen_idx]
       IN  /\ fitnesses' = fits
           /\ IF Improves(best_gen_fitness, best_overall_fitness)
              THEN /\ best_overall_fitness' = best_gen_fitness
                   /\ best_overall_schedule' = best_gen_schedule
              ELSE UNCHANGED <<best_overall_fitness, best_overall_schedule>>
           /\ best_fitness_history' = Append(best_fitness_history, best_gen_fitness)
    /\ population' = [i \in DOMAIN population |-> schedule_after_check(population[i])]
    /\ pc' = "elitism"
    /\ UNCHANGED <<verifier_vars, calculator_vars, mutations, instance_vars, config_vars, construct_vars, check_vars,
                   generation, new_population, parent1, parent2, child1, child2,
                   mutate_arg, result, error>>

\* lines 159-169
Evaluate ==
    /\ pc = "evaluate"
    /\ LET fits == [i \in DOMAIN population |-> calculate_fitness(population[i])]
           best_gen_idx == IndexOfMin(fits)
           best_gen_fitness == fits[best_gen_idx]
           best_gen_schedule == population[best_gen_idx]
       IN  /\ fitnesses' = fits
           /\ IF Improves(best_gen_fitness, best_overall_fitness)
              THEN /\ best_overall_fitness' = best_gen_fitness
                   /\ best_overall_schedule' = best_gen_schedule
              ELSE UNCHANGED <<best_overall_fitness, best_overall_schedule>>
           /\ best_fitness_history' = Append(best_fitness_history, best_gen_fitness)
    /\ population' = [i \in DOMAIN population |-> schedule_after_check(population[i])]
    /\ pc' = "elitism"
    /\ UNCHANGED <<verifier_vars, calculator_vars, mutations, instance_vars, config_vars, construct_vars, check_vars,
                   generation, new_population, parent1, parent2, child1, child2,
                   mutate_arg, result, error>>

\* lines 174-175
Elitism ==
    /\ pc = "elitism"
    /\ LET elite_indices == EliteIndices(fitnesses, elite_size)
       IN  new_population' = [k \in DOMAIN elite_indices |-> population[elite_indices[k]]]
    /\ pc' = "loop"
    /\ UNCHANGED <<verifier_vars, calculator_vars, mutations, instance_vars, config_vars, construct_vars, check_vars, population,
                   fitnesses, best_fitness_history, best_overall_schedule,
                   best_overall_fitness, generation, parent1, parent2, child1, child2,
                   mutate_arg, result, error>>

\* a selection that clamps the tournament to the population size
SelectClamped ==
    /\ pc = "loop"
    /\ Len(new_population) < population_size
    /\ \E t1, t2 \in Samples(Len(population), Min(tournament_size, Len(population))) :
          /\ parent1' = tournament_selection(fitnesses, t1)
          /\ parent2' = tournament_selection(fitnesses, t2)
    /\ pc' = "crossover"
    /\ UNCHANGED <<verifier_vars, calculator_vars, mutations, instance_vars, config_vars, construct_vars, check_vars, population,
                   fitnesses, best_fitness_history, best_overall_schedule,
                   best_overall_fitness, generation, new_population, child1, child2,
                   mutate_arg, result, error>>

\* lines 177-179: two parents are drawn; parent1 and parent2 refer to members of
\* the population and are kept as their indices
Select ==
    /\ pc = "loop"
    /\ Len(new_population) < population_size
    /\ tournament_size <= Len(population)
    /\ \E t1, t2 \in Samples(Len(population), tournament_size) :
          /\ parent1' = tournament_selection(fitnesses, t1)
          /\ parent2' = tournament_selection(fitnesses, t2)
    /\ pc' = "crossover"
    /\ UNCHANGED <<verifier_vars, calculator_vars, mutations, instance_vars, config_vars, construct_vars, check_vars, population,
                   fitnesses, best_fitness_history, best_overall_schedule,
                   best_overall_fitness, generation, new_population, child1, child2,
                   mutate_arg, result, error>>

\* line 110: random.sample raises ValueError when the sample exceeds the population
SelectFails ==
    /\ pc = "loop"
    /\ Len(new_population) < population_size
    /\ tournament_size > Len(population)
    /\ error' = "ValueError"
    /\ pc' = "failed"
    /\ UNCHANGED <<verifier_vars, calculator_vars, mutations, instance_vars, config_vars, construct_vars, check_vars, population,
                   fitnesses, best_fitness_history, best_overall_schedule,
                   best_overall_fitness, generation, new_population, parent1, parent2,
                   child1, child2, mutate_arg, result>>

\* line 181
Crossover ==
    /\ pc = "crossover"
    /\ \E r \in order_crossover(population[parent1], population[parent2]) :
          /\ child1' = r.child1
          /\ child2' = r.child2
          \* the arguments are members of the population
          /\ population' = [population EXCEPT ![parent1] = r.parent1, ![parent2] = r.parent2]
    /\ pc' = "mutate1"
    /\ UNCHANGED <<verifier_vars, calculator_vars, mutations, instance_vars, config_vars, construct_vars, check_vars,
                   fitnesses, best_fitness_history, best_overall_schedule,
                   best_overall_fitness, generation, new_population, parent1, parent2,
                   mutate_arg, result, error>>

\* line 183
Mutate1 ==
    /\ pc = "mutate1"
    /\ \E fires \in {f \in BOOLEAN : f => mutations < MaxMutations}, idx \in DOMAIN child1, adjustment \in Adjustments :
          LET r == mutate(child1, fires, idx, adjustment)
          IN  /\ child1' = r.ret
              /\ mutate_arg' = r.arg
              /\ mutations' = IF fires THEN mutations + 1 ELSE mutations
    /\ pc' = "mutate2"
    /\ UNCHANGED <<verifier_vars, calculator_vars, instance_vars, config_vars, construct_vars, check_vars, population,
                   fitnesses, best_fitness_history, best_overall_schedule,
                   best_overall_fitness, generation, new_population, parent1, parent2,
                   child2, result, error>>

\* line 184
Mutate2 ==
    /\ pc = "mutate2"
    /\ \E fires \in {f \in BOOLEAN : f => mutations < MaxMutations}, idx \in DOMAIN child2, adjustment \in Adjustments :
          LET r == mutate(child2, fires, idx, adjustment)
          IN  /\ child2' = r.ret
              /\ mutate_arg' = r.arg
              /\ mutations' = IF fires THEN mutations + 1 ELSE mutations
    /\ pc' = "extend"
    /\ UNCHANGED <<verifier_vars, calculator_vars, instance_vars, config_vars, construct_vars, check_vars, population,
                   fitnesses, best_fitness_history, best_overall_schedule,
                   best_overall_fitness, generation, new_population, parent1, parent2,
                   child1, result, error>>

\* line 186; the locals of the loop body are dead until they are assigned again
Extend ==
    /\ pc = "extend"
    /\ new_population' = new_population \o <<child1, child2>>
    /\ parent1' = NoParent
    /\ parent2' = NoParent
    /\ child1' = None
    /\ child2' = None
    /\ mutate_arg' = None
    /\ pc' = "loop"
    /\ UNCHANGED <<verifier_vars, calculator_vars, mutations, instance_vars, config_vars, construct_vars, check_vars, population,
                   fitnesses, best_fitness_history, best_overall_schedule,
                   best_overall_fitness, generation, result, error>>

\* line 188, and line 158: the next generation, or the end of the loop
Replace ==
    /\ pc = "loop"
    /\ ~(Len(new_population) < population_size)
    /\ population' = Truncate(new_population, population_size)
    /\ generation' = generation + 1
    /\ pc' = IF generation + 1 < generations THEN "evaluate" ELSE "finish"
    /\ UNCHANGED <<verifier_vars, calculator_vars, mutations, instance_vars, config_vars, construct_vars, check_vars, fitnesses,
                   best_fitness_history, best_overall_schedule, best_overall_fitness,
                   new_population, parent1, parent2, child1, child2, mutate_arg,
                   result, error>>

\* lines 190-224: the result is built and returned
Finish ==
    /\ pc = "finish"
    /\ best_overall_schedule /= None
    /\ result' = <<[schedule |-> convert_to_readable_format(best_overall_schedule),
                  makespan |-> best_overall_fitness,
                  patient_times |-> calculate_patient_processing_times(best_overall_schedule),
                  fitness_history |-> best_fitness_history]>>
    /\ pc' = "done"
    /\ UNCHANGED <<verifier_vars, calculator_vars, mutations, instance_vars, config_vars, construct_vars, check_vars, population,
                   fitnesses, best_fitness_history, best_overall_schedule,
                   best_overall_fitness, generation, new_population, parent1, parent2,
                   child1, child2, mutate_arg, error>>

\* line 230: convert_to_readable_format iterates over None (TypeError)
FinishFails ==
    /\ pc = "finish"
    /\ best_overall_schedule = None
    /\ error' = "TypeError"
    /\ pc' = "failed"
    /\ UNCHANGED <<verifier_vars, calculator_vars, mutations, instance_vars, config_vars, construct_vars, check_vars, population,
                   fitnesses, best_fitness_history, best_overall_schedule,
                   best_overall_fitness, generation, new_population, parent1, parent2,
                   child1, child2, mutate_arg, result>>

Next ==
    \/ InitializePopulation
    \/ Evaluate
    \/ Elitism
    \/ Select
    \/ SelectFails
    \/ Crossover
    \/ Mutate1
    \/ Mutate2
    \/ Extend
    \/ Replace
    \/ Finish
    \/ FinishFails

Spec == InitSolve /\ [][Next]_vars

----------------------------------------------------------------------------
(* generate_all_constraints (src/fjsp_constraint_calculator.py) *)

\* most patients and most counters of the small calculator instances
MaxCalcPatients == 3
MaxCalcCounters == 2

\* A dict of the source is kept as the sequence of its <<key, value>> items in
\* insertion order (P_TIME[p]) or as a function on its keys (P_TIME, PRECEDENCE).
HasKey(d, k) == \E i \in DOMAIN d : d[i][1] = k

\* the module globals PATIENTS, COUNTERS, P_TIME, PRECEDENCE as written
ReferenceInstance ==
    [PATIENTS |-> <<1, 2, 3, 4, 5>>,
     COUNTERS |-> <<1, 2, 3, 4, 5>>,
     P_TIME |-> (1 :> <<<<1, 11>>, <<2, 5>>>>
                 @@ 2 :> <<<<2, 5>>, <<3, 10>>, <<4, 18>>>>
                 @@ 3 :> <<<<2, 5>>, <<3, 10>>>>
                 @@ 4 :> <<<<2, 5>>, <<3, 10>>, <<4, 18>>>>
                 @@ 5 :> <<<<1, 11>>, <<5, 15>>>>),
     PRECEDENCE |-> (1 :> <<<<1, 2>>>>
                     @@ 2 :> <<<<2, 3>>, <<3, 4>>>>
                     @@ 3 :> <<<<2, 3>>>>
                     @@ 4 :> <<<<2, 3>>, <<3, 4>>>>
                     @@ 5 :> <<<<1, 5>>>>)]

\* the non-empty sequences of distinct elements of S
DistinctSeqs(S) ==
    UNION {{s \in [1..n -> S] : \A i, j \in 1..n : i /= j => s[i] /= s[j]} :
              n \in 1..Cardinality(S)}

\* the duration tables of a patient over counters 1..MaxCalcCounters, in any key order
Tables ==
    {[i \in DOMAIN keys |-> <<keys[i], keys[i]>>] : keys \in DistinctSeqs(1..MaxCalcCounters)}

\* the edges between consecutive operations of a table
Chain(table) == [i \in 1..(Len(table) - 1) |-> <<table[i][1], table[i + 1][1]>>]

\* another value of the globals: patients 1..n, each with a table; PRECEDENCE
\* either chains every patient of two or more operations (the others have no
\* entry) or is empty
SmallInstance(n, tables, chained) ==
    [PATIENTS |-> [i \in 1..n |-> i],
     COUNTERS |-> [i \in 1..MaxCalcCounters |-> i],
     P_TIME |-> tables,
     PRECEDENCE |-> IF chained
                    THEN [p \in {q \in 1..n : Len(tables[q]) > 1} |-> Chain(tables[p])]
                    ELSE <<>>]

\* line 42
patients_on_counter(counter) ==
    SelectSeq(PATIENTS, LAMBDA p : HasKey(P_TIME[p], counter))

\* patients_on_counter[i:], a slice that keeps p1 itself
LaterPatientsFromSelf(on_counter, i) == SubSeq(on_counter, i, Len(on_counter))

\* line 44: patients_on_counter[i+1:], the patients after p1 (i counts from 1 here)
LaterPatients(on_counter, i) == SubSeq(on_counter, i + 1, Len(on_counter))

\* lines 43-47 for one counter: (counter, p1, p2), p1 in list order, p2 after p1
PairsOnCounter(counter) ==
    LET on_counter == patients_on_counter(counter)
    IN  Concat([i \in DOMAIN on_counter |->
                  LET later == LaterPatients(on_counter, i)
                  IN  [j \in DOMAIN later |-> <<counter, on_counter[i], later[j]>>]])

\* lines 41-47: what the capacity loop appends, before numbering
CapacityItems ==
    Concat([k \in DOMAIN COUNTERS |-> PairsOnCounter(COUNTERS[k])])

\* PRECEDENCE.get(patient, [])
PrecedenceGet(patient) ==
    IF patient \in DOMAIN PRECEDENCE THEN PRECEDENCE[patient] ELSE <<>>

\* lines 60-64: (patient, prev_counter, next_counter)
PrecedenceItems ==
    Concat([k \in DOMAIN PATIENTS |->
              LET edges == PrecedenceGet(PATIENTS[k])
              IN  [e \in DOMAIN edges |-> <<PATIENTS[k], edges[e][1], edges[e][2]>>]])

\* lines 76-80: (patient, counter), counters in the key order of P_TIME[patient]
MakespanItems ==
    Concat([k \in DOMAIN PATIENTS |->
              LET table == P_TIME[PATIENTS[k]]
              IN  [j \in DOMAIN table |-> <<PATIENTS[k], table[j][1]>>]])

\* lines 93-102: Cmax first, then Y[counter, patient] of every operation
NonNegativityItems ==
    <<<<"Cmax">>>> \o
    Concat([k \in DOMAIN PATIENTS |->
              LET table == P_TIME[PATIENTS[k]]
              IN  [j \in DOMAIN table |-> <<"Y", table[j][1], PATIENTS[k]>>]])

\* an append that takes the number before constraint_count is incremented
RECURSIVE AppendNumberedLate(_, _, _)
AppendNumberedLate(items, list, constraint_count) ==
    IF items = <<>>
    THEN [list |-> list, constraint_count |-> constraint_count]
    ELSE AppendNumberedLate(Tail(items),
                            Append(list, <<constraint_count>> \o Head(items)),
                            constraint_count + 1)

\* constraint_count += 1; list.append((constraint_count, ...)), once per item
\* (lines 45-47, 62-64, 78-80, 93-95, 100-102).  The formatted text of a
\* constraint is left out of the tuple; its numbers and ids are kept.
RECURSIVE AppendNumbered(_, _, _)
AppendNumbered(items, list, constraint_count) ==
    IF items = <<>>
    THEN [list |-> list, constraint_count |-> constraint_count]
    ELSE AppendNumbered(Tail(items),
                        Append(list, <<constraint_count + 1>> \o Head(items)),
                        constraint_count + 1)

\* lines 25-123
generate_all_constraints ==
    LET capacity == AppendNumbered(CapacityItems, <<>>, 0)
        prec == AppendNumbered(PrecedenceItems, <<>>, capacity.constraint_count)
        makespan == AppendNumbered(MakespanItems, <<>>, prec.constraint_count)
        non_negativity == AppendNumbered(NonNegativityItems, <<>>, makespan.constraint_count)
    IN  [capacity |-> capacity.list,
         precedence |-> prec.list,
         makespan |-> makespan.list,
         non_negativity |-> non_negativity.list,
         total |-> non_negativity.constraint_count]

\* no instance file is loaded
NotLoaded ==
    /\ patients = <<>>
    /\ counters = <<>>
    /\ processing_times = <<>>
    /\ precedence = <<>>
    /\ operations = <<>>

LoadGlobals(data) ==
    /\ PATIENTS = data.PATIENTS
    /\ COUNTERS = data.COUNTERS
    /\ P_TIME = data.P_TIME
    /\ PRECEDENCE = data.PRECEDENCE

\* the module is imported with the globals as written, or with up to
\* MaxCalcPatients patients and any tables
InitConstraints ==
    /\ \/ LoadGlobals(ReferenceInstance)
       \/ \E n \in 1..MaxCalcPatients :
             \E tables \in [1..n -> Tables], chained \in BOOLEAN :
                 LoadGlobals(SmallInstance(n, tables, chained))
    /\ constraints = <<>>
    /\ VerifierIdle
    /\ NotLoaded
    /\ NotConfigured
    /\ ConstructIdle
    /\ CheckIdle
    /\ SolveIdle
    /\ pc = "generate"
    /\ mutations = 0

\* constraints = generate_all_constraints() (line 126)
GenerateAllConstraints ==
    /\ pc = "generate"
    /\ constraints' = <<generate_all_constraints>>
    /\ pc' = "generated"
    /\ UNCHANGED <<verifier_vars, PATIENTS, COUNTERS, P_TIME, PRECEDENCE, mutations, instance_vars,
                   config_vars, construct_vars, check_vars, solve_vars>>

NextConstraints == GenerateAllConstraints

SpecConstraints == InitConstraints /\ [][NextConstraints]_vars

----------------------------------------------------------------------------
(* is_feasible and calculate_fitness on the reference instance *)

\* largest shift of a start time away from the touching schedule
MaxShift == 1

\* paper_exact_data.json: the same patients, counters, durations and edges as
\* the globals of the constraint calculator
ReferenceData ==
    [patients |-> ReferenceInstance.PATIENTS,
     counters |-> ReferenceInstance.COUNTERS,
     processing_times |-> ReferenceInstance.P_TIME,
     precedence |-> ReferenceInstance.PRECEDENCE]

\* patients 1 and 5: counter 1 is shared back to back, and each patient's second
\* operation starts when its first ends
TouchingSchedule == <<<<1, 1, 0>>, <<1, 2, 11>>, <<5, 1, 11>>, <<5, 5, 22>>>>

\* the entries of a schedule with start times moved by shift[i]
Shifted(sched, shift) ==
    [i \in DOMAIN sched |-> <<sched[i][1], sched[i][2], sched[i][3] + shift[i]>>]

\* the touching schedule in any order of its entries, each start moved by at
\* most MaxShift and not below 0
InitScenario ==
    /\ load_data(ReferenceData)
    /\ NotConfigured
    /\ ConstructIdle
    /\ \E order \in Shuffles(TouchingSchedule) :
          \E shift \in [DOMAIN TouchingSchedule -> (-MaxShift)..MaxShift] :
              /\ \A i \in DOMAIN order : order[i][3] + shift[i] >= 0
              /\ candidate = Shifted(order, shift)
    /\ verdict = None
    /\ fitness = None
    /\ SolveIdle
    /\ pc = "built"
    /\ mutations = 0
    /\ CalculatorIdle
    /\ VerifierIdle

SpecScenario == InitScenario /\ [][NextCheck]_vars

----------------------------------------------------------------------------
(* ExactPaperSolver: solve_with_paper_schedule and verify_constraints
   (src/fjsp_solver_milp.py) *)

\* lines 13-36: patient -> list of {counter, start, duration, end}
optimal_schedule ==
    1 :> <<[counter |-> 1, start |-> 0, duration |-> 11, end |-> 11],
           [counter |-> 2, start |-> 11, duration |-> 5, end |-> 16]>>
    @@ 2 :> <<[counter |-> 2, start |-> 16, duration |-> 5, end |-> 21],
              [counter |-> 3, start |-> 25, duration |-> 10, end |-> 35],
              [counter |-> 4, start |-> 43, duration |-> 18, end |-> 61]>>
    @@ 3 :> <<[counter |-> 2, start |-> 0, duration |-> 5, end |-> 5],
              [counter |-> 3, start |-> 5, duration |-> 10, end |-> 15]>>
    @@ 4 :> <<[counter |-> 2, start |-> 5, duration |-> 5, end |-> 10],
              [counter |-> 3, start |-> 15, duration |-> 10, end |-> 25],
              [counter |-> 4, start |-> 25, duration |-> 18, end |-> 43]>>
    @@ 5 :> <<[counter |-> 1, start |-> 11, duration |-> 11, end |-> 22],
              [counter |-> 5, start |-> 22, duration |-> 15, end |-> 37]>>

\* the paper schedule with one operation moved in time
MovedSchedule(patient, i, shift) ==
    [optimal_schedule EXCEPT ![patient][i] =
        [@ EXCEPT !.start = @ + shift, !.end = @ + shift]]

\* sorted(..., key=lambda x: x['start']): stable, ascending by start
RECURSIVE InsertByStartKey(_, _)
InsertByStartKey(x, sorted) ==
    IF sorted = <<>> THEN <<x>>
    ELSE IF x.start < Head(sorted).start THEN <<x>> \o sorted
    ELSE <<Head(sorted)>> \o InsertByStartKey(x, Tail(sorted))

RECURSIVE SortByStartKey(_)
SortByStartKey(s) ==
    IF s = <<>> THEN <<>>
    ELSE InsertByStartKey(s[Len(s)], SortByStartKey(SubSeq(s, 1, Len(s) - 1)))

\* lines 47-54: counter -> the operations on it, patients in order
CounterTimeline(sched) ==
    [c \in {paper_data.counters[k] : k \in DOMAIN paper_data.counters} |->
        Concat([k \in DOMAIN paper_data.patients |->
                  LET patient == paper_data.patients[k]
                      ops == SelectSeq(sched[patient], LAMBDA op : op.counter = c)
                  IN  [i \in DOMAIN ops |->
                          [patient |-> patient, start |-> ops[i].start, end |-> ops[i].end]]])]

\* the capacity test with >= in place of > at line 61: touching is a violation
CapacityViolationsStrict(timeline) ==
    Concat([k \in DOMAIN paper_data.counters |->
              LET counter == paper_data.counters[k]
                  ops == SortByStartKey(timeline[counter])
                  hits == SelectSeq([i \in 1..(Len(ops) - 1) |-> i],
                                    LAMBDA i : ops[i].end >= ops[i + 1].start)
              IN  [h \in DOMAIN hits |->
                      <<"overlaps", counter, ops[hits[h]].patient, ops[hits[h] + 1].patient>>]])

\* lines 58-63: one violation per pair of neighbours, in start order, that overlap
CapacityViolations(timeline) ==
    Concat([k \in DOMAIN paper_data.counters |->
              LET counter == paper_data.counters[k]
                  ops == SortByStartKey(timeline[counter])
                  hits == SelectSeq([i \in 1..(Len(ops) - 1) |-> i],
                                    LAMBDA i : ops[i].end > ops[i + 1].start)
              IN  [h \in DOMAIN hits |->
                      <<"overlaps", counter, ops[hits[h]].patient, ops[hits[h] + 1].patient>>]])

\* lines 72-81: one violation per edge whose predecessor ends after its successor starts
PrecedenceViolations(sched) ==
    Concat([k \in DOMAIN paper_data.patients |->
              LET patient == paper_data.patients[k]
                  ops == SortByStartKey(sched[patient])
                  precedence_required == paper_data.precedence[patient]
                  prev_op(e) == SelectSeq(ops, LAMBDA op : op.counter = precedence_required[e][1])[1]
                  next_op(e) == SelectSeq(ops, LAMBDA op : op.counter = precedence_required[e][2])[1]
                  hits == SelectSeq([e \in DOMAIN precedence_required |-> e],
                                    LAMBDA e : prev_op(e).end > next_op(e).start)
              IN  [h \in DOMAIN hits |->
                      <<"must finish before", patient,
                        precedence_required[hits[h]][1], precedence_required[hits[h]][2]>>]])

\* every operation of a schedule, patient by patient
AllEntries(sched) ==
    UNION {{sched[p][i] : i \in DOMAIN sched[p]} : p \in DOMAIN sched}

\* line 89
MaxOfEnds(sched) ==
    CHOOSE m \in {op.end : op \in AllEntries(sched)} :
        \A op \in AllEntries(sched) : op.end <= m

\* lines 93-97
AllPositive(sched) ==
    \A op \in AllEntries(sched) : op.start >= 0 /\ op.end >= 0

\* the solver is built (line 10) and verify_constraints is called on the paper
\* schedule (lines 177-178), or on the paper schedule with one operation moved
\* by up to MaxShift
InitVerify ==
    /\ paper_data = ReferenceData
    /\ \E patient \in DOMAIN optimal_schedule :
          \E i \in DOMAIN optimal_schedule[patient], shift \in (-MaxShift)..MaxShift :
              paper_schedule = MovedSchedule(patient, i, shift)
    /\ counter_timeline = <<>>
    /\ violations = <<>>
    /\ paper_makespan = 0
    /\ all_positive = None
    /\ constraints_ok = None
    /\ CalculatorIdle
    /\ NotLoaded
    /\ NotConfigured
    /\ ConstructIdle
    /\ CheckIdle
    /\ SolveIdle
    /\ pc = "timeline"
    /\ mutations = 0

\* lines 46-54
BuildTimeline ==
    /\ pc = "timeline"
    /\ violations' = <<>>
    /\ counter_timeline' = CounterTimeline(paper_schedule)
    /\ pc' = "capacity"
    /\ UNCHANGED <<paper_data, paper_schedule, paper_makespan, all_positive, constraints_ok,
                   calculator_vars, mutations, instance_vars, config_vars, construct_vars,
                   check_vars, solve_vars>>

\* lines 56-63
VerifyCapacity ==
    /\ pc = "capacity"
    /\ violations' = violations \o CapacityViolations(counter_timeline)
    /\ pc' = "precedence"
    /\ UNCHANGED <<paper_data, paper_schedule, counter_timeline, paper_makespan, all_positive,
                   constraints_ok, calculator_vars, mutations, instance_vars, config_vars,
                   construct_vars, check_vars, solve_vars>>

\* lines 70-81
VerifyPrecedence ==
    /\ pc = "precedence"
    /\ violations' = violations \o PrecedenceViolations(paper_schedule)
    /\ pc' = "makespan"
    /\ UNCHANGED <<paper_data, paper_schedule, counter_timeline, paper_makespan, all_positive,
                   constraints_ok, calculator_vars, mutations, instance_vars, config_vars,
                   construct_vars, check_vars, solve_vars>>

\* lines 88-90
VerifyMakespan ==
    /\ pc = "makespan"
    /\ paper_makespan' = MaxOfEnds(paper_schedule)
    /\ pc' = "non_negativity"
    /\ UNCHANGED <<paper_data, paper_schedule, counter_timeline, violations, all_positive,
                   constraints_ok, calculator_vars, mutations, instance_vars, config_vars,
                   construct_vars, check_vars, solve_vars>>

\* lines 92-114: the non-negativity test is reported but adds no violation; the
\* answer is len(violations) == 0
VerifyNonNegativity ==
    /\ pc = "non_negativity"
    /\ all_positive' = AllPositive(paper_schedule)
    /\ constraints_ok' = (Len(violations) = 0)
    /\ pc' = "verified"
    /\ UNCHANGED <<paper_data, paper_schedule, counter_timeline, violations, paper_makespan,
                   calculator_vars, mutations, instance_vars, config_vars, construct_vars,
                   check_vars, solve_vars>>

NextVerify ==
    \/ BuildTimeline
    \/ VerifyCapacity
    \/ VerifyPrecedence
    \/ VerifyMakespan
    \/ VerifyNonNegativity

SpecVerify == InitVerify /\ [][NextVerify]_vars

----------------------------------------------------------------------------
(* Properties *)

\* the dictionary solve returned
Returned == result[1]

\* the completion time of an entry of a schedule
EndOf(e) == e[3] + processing_times[e[1]][e[2]]

\* no two entries on one counter overlap (touching is allowed)
NoOverlap(sched) ==
    \A i, j \in DOMAIN sched :
        (i /= j /\ sched[i][2] = sched[j][2]) =>
            (EndOf(sched[i]) <= sched[j][3] \/ EndOf(sched[j]) <= sched[i][3])

\* every precedence edge has its predecessor complete before its successor starts
PrecedenceHolds(sched) ==
    \A i, j \in DOMAIN sched :
        (/\ sched[i][1] = sched[j][1]
         /\ \E k \in DOMAIN PrecedenceOf(sched[i][1]) :
               PrecedenceOf(sched[i][1])[k] = <<sched[i][2], sched[j][2]>>)
            => EndOf(sched[i]) <= sched[j][3]

\* the largest completion time of a non-empty schedule
MaxEnd(sched) ==
    CHOOSE m \in {EndOf(sched[i]) : i \in DOMAIN sched} :
        \A i \in DOMAIN sched : EndOf(sched[i]) <= m

NonNegative(sched) == \A i \in DOMAIN sched : sched[i][3] >= 0

\* C1: the schedule create_random_schedule returns is feasible, for every
\* instance and every order of the shuffle (is_feasible answers true on it)
C1_ConstructedFeasible ==
    (pc \in {"judged", "scored"} /\ all_operations /= <<>>) => verdict = TRUE

\* C2: when every evaluated population was wholly infeasible, solve completes
\* its generations and returns a member of the population as the best
\* schedule, with the sentinel as makespan; it does not fail
C2_AllInfeasibleReturns ==
    (/\ pc \in {"done", "failed"}
     /\ generation = generations
     /\ \A g \in DOMAIN best_fitness_history : best_fitness_history[g] = INF)
        => (/\ pc = "done"
            /\ Returned.makespan = INF
            /\ \E i \in DOMAIN population :
                  Returned.schedule = convert_to_readable_format(population[i]))

\* C3: on a schedule with one start per operation, is_feasible answers true
\* exactly when no two operations of a counter overlap and every precedence
\* edge has predecessor start + duration <= successor start
C3_FeasibleIff ==
    pc \in {"judged", "scored"} =>
        (verdict <=> (NoOverlap(candidate) /\ PrecedenceHolds(candidate)))

\* a schedule judged feasible in which two operations touch on a counter
C3_Witness ==
    /\ pc = "judged"
    /\ verdict = TRUE
    /\ \E i, j \in DOMAIN candidate :
          i /= j /\ candidate[i][2] = candidate[j][2] /\ EndOf(candidate[i]) = candidate[j][3]

\* C4: calculate_fitness is the sentinel on an infeasible schedule and the
\* largest start + duration on a feasible one
C4_FitnessIsMakespanOrSentinel ==
    pc = "scored" =>
        fitness = (IF verdict THEN MaxEnd(candidate) ELSE INF)

\* an infeasible schedule scored with the sentinel though its makespan is finite
C4_Witness ==
    /\ pc = "scored"
    /\ verdict = FALSE
    /\ fitness = INF
    /\ MaxEnd(candidate) < INF

\* C5: with at least one elite, the recorded best fitness of a generation is
\* never greater than that of the generation before
C5_HistoryNonIncreasing ==
    elite_size >= 1 =>
        \A g \in 1..(Len(best_fitness_history) - 1) :
            best_fitness_history[g + 1] <= best_fitness_history[g]

\* a second generation recorded, with an elite, after a mutation fired, and
\* a finite best fitness
C5_Witness ==
    /\ elite_size >= 1
    /\ elite_size < population_size
    /\ Len(best_fitness_history) = 2
    /\ mutations >= 1
    /\ best_fitness_history[1] < INF

\* C6: at every generation transition the min(elite_size, population_size)
\* lowest-fitness members of the population are members of the next
\* population, with the same content
C6_ElitesSurvive ==
    [][(pc = "loop" /\ pc' \in {"evaluate", "finish"}) =>
          LET k == Min(elite_size, population_size)
          IN  \E e \in Samples(Len(population), k) :
                 /\ \A j \in 1..k : \A i \in DOMAIN population :
                       (\A m \in 1..k : e[m] /= i) =>
                          calculate_fitness(population[e[j]]) <= calculate_fitness(population[i])
                 /\ \A j \in 1..k : population'[j] = population[e[j]]
      ]_vars

\* a generation that began with one elite, a mutated offspring and a population
\* of two: the elite is the best member and differs from the offspring
C6_Witness ==
    /\ pc = "evaluate"
    /\ generation >= 1
    /\ elite_size = 1
    /\ population_size = 2
    /\ mutations >= 1
    /\ population[1] /= population[2]
    /\ calculate_fitness(population[1]) < INF

\* C7: at the start of every generation the population has exactly
\* population_size members
C7_PopulationSize ==
    pc \in {"evaluate", "elitism", "loop"} => Len(population) = population_size

\* a generation begun after offspring were added in a pair and one was cut
C7_Witness ==
    /\ pc = "evaluate"
    /\ generation >= 1
    /\ elite_size < population_size
    /\ (population_size - elite_size) % 2 = 1
    /\ Len(new_population) = population_size + 1

\* C8: every start time of every population member, of every offspring and
\* of the best schedule kept and returned is >= 0
C8_NonNegativeStarts ==
    /\ \A i \in DOMAIN population : NonNegative(population[i])
    /\ \A i \in DOMAIN new_population : NonNegative(new_population[i])
    /\ child1 /= None => NonNegative(child1)
    /\ child2 /= None => NonNegative(child2)
    /\ best_overall_schedule /= None => NonNegative(best_overall_schedule)
    /\ pc = "done" =>
          \A p \in DOMAIN Returned.schedule : \A i \in DOMAIN Returned.schedule[p] :
              Returned.schedule[p][i].start >= 0

\* a mutation has moved a start from above SmallAdjustment to 0: the offset
\* was -MutationRange and the sum was clamped
C8_Witness ==
    /\ pc = "mutate2"
    /\ \E i \in DOMAIN child1 :
          /\ child1[i][3] = 0
          /\ mutate_arg[i][3] > SmallAdjustment
          /\ mutate_arg[i][3] - MutationRange < 0

\* C9: a call of mutate leaves the schedule it is given as it was, and leaves
\* every population member, the other offspring and the best schedule kept
\* untouched, whether or not the mutation fires
C9_MutateLeavesInput ==
    [][(pc \in {"mutate1", "mutate2"}) =>
          /\ mutate_arg' = (IF pc = "mutate1" THEN child1 ELSE child2)
          /\ population' = population
          /\ new_population' = new_population
          /\ best_overall_schedule' = best_overall_schedule
          /\ pc = "mutate1" => child2' = child2
          /\ pc = "mutate2" => child1' = child1
      ]_vars

\* a mutation has fired: the schedule returned differs from the one passed in
C9_Witness ==
    /\ pc = "mutate2"
    /\ mutations = 1
    /\ child1 /= mutate_arg

\* C10: after every evaluation the best overall fitness is the least entry of
\* the history; when finite, the best overall schedule is feasible and has
\* that makespan; the schedule kept changes only on a strict improvement, to
\* the first member of the population with the least fitness
C10_BestOverall ==
    [][/\ pc' = "elitism" =>
             /\ \A g \in DOMAIN best_fitness_history' :
                   best_overall_fitness' <= best_fitness_history'[g]
             /\ \E g \in DOMAIN best_fitness_history' :
                   best_overall_fitness' = best_fitness_history'[g]
             /\ best_overall_fitness' < INF =>
                   /\ best_overall_schedule' /= None
                   /\ NoOverlap(best_overall_schedule')
                   /\ PrecedenceHolds(best_overall_schedule')
                   /\ MaxEnd(best_overall_schedule') = best_overall_fitness'
       /\ best_overall_schedule' /= best_overall_schedule =>
             /\ best_overall_fitness' < best_overall_fitness
             /\ \E i \in DOMAIN population :
                   /\ best_overall_schedule' = population[i]
                   /\ calculate_fitness(population[i]) = best_overall_fitness'
                   /\ \A j \in 1..(i - 1) :
                         calculate_fitness(population[j]) > best_overall_fitness'
      ]_vars

\* a generation improved strictly on a finite best of the generation before
C10_Witness ==
    /\ pc = "elitism"
    /\ Len(best_fitness_history) = 3
    /\ best_fitness_history[3] < best_fitness_history[2]
    /\ best_fitness_history[2] < INF
    /\ best_overall_fitness = best_fitness_history[3]

\* C11: each parent chosen is a member of the population that has the least
\* fitness among some tournament_size distinct members drawn: none of them
\* has a strictly lower fitness, so an infeasible parent is chosen only when
\* every member drawn is infeasible
C11_TournamentWinner ==
    pc = "crossover" =>
        \A parent \in {parent1, parent2} :
            /\ parent \in DOMAIN population
            /\ \E t \in Samples(Len(population), tournament_size) :
                  /\ \E i \in DOMAIN t : t[i] = parent
                  /\ \A i \in DOMAIN t :
                        calculate_fitness(population[parent]) <= calculate_fitness(population[t[i]])
                  /\ calculate_fitness(population[parent]) = INF =>
                        \A i \in DOMAIN t : ~is_feasible(population[t[i]])

\* a tournament of two between a feasible and an infeasible member, after
\* which both parents are the feasible one
C11_Witness ==
    /\ pc = "crossover"
    /\ tournament_size = 2
    /\ \E i \in DOMAIN population : calculate_fitness(population[i]) = INF
    /\ calculate_fitness(population[parent1]) < INF
    /\ calculate_fitness(population[parent2]) < INF

\* the configuration needs no tournament, or the tournament fits the population
TournamentFits ==
    tournament_size <= population_size \/ elite_size >= population_size

StepsLeft ==
    LET per_generation == 5 * population_size + 4
        loop_left == Max(0, population_size - Len(new_population))
        generations_left == generations - generation
    IN  CASE pc = "start" -> (generations + 1) * per_generation
          [] pc = "evaluate" -> generations_left * per_generation + 5 * population_size + 3
          [] pc = "elitism" -> generations_left * per_generation + 5 * population_size + 2
          [] pc = "loop" -> generations_left * per_generation + 5 * loop_left + 1
          [] pc = "crossover" -> generations_left * per_generation + 5 * loop_left
          [] pc = "mutate1" -> generations_left * per_generation + 5 * loop_left - 1
          [] pc = "mutate2" -> generations_left * per_generation + 5 * loop_left - 2
          [] pc = "extend" -> generations_left * per_generation + 5 * loop_left - 3
          [] pc = "finish" -> 1
          [] OTHER -> 0

\* at every position of solve the step of that position is possible; at the
\* crossover its copy branch is always available, so the step needs only the
\* two selected parents
StepPossible ==
    CASE pc = "start" -> ENABLED InitializePopulation
      [] pc = "evaluate" -> ENABLED Evaluate
      [] pc = "elitism" -> ENABLED Elitism
      [] pc = "loop" -> ENABLED Select \/ ENABLED SelectFails \/ ENABLED Replace
      [] pc = "crossover" -> parent1 \in DOMAIN population /\ parent2 \in DOMAIN population
      [] pc = "mutate1" -> ENABLED Mutate1
      [] pc = "mutate2" -> ENABLED Mutate2
      [] pc = "extend" -> ENABLED Extend
      [] pc = "finish" -> ENABLED Finish \/ ENABLED FinishFails
      [] OTHER -> pc \in {"done", "failed"}

Malformed ==
    \/ \E p \in DOMAIN precedence : \E i \in DOMAIN precedence[p] : \E k \in 1..2 :
          \/ p \notin DOMAIN processing_times
          \/ precedence[p][i][k] \notin DOMAIN processing_times[p]
    \/ \E p \in DOMAIN processing_times : \E c \in DOMAIN processing_times[p] :
          processing_times[p][c] <= 0
    \/ \E p \in DOMAIN processing_times :
          \/ p \notin {patients[i] : i \in DOMAIN patients}
          \/ \E c \in DOMAIN processing_times[p] : c \notin {counters[i] : i \in DOMAIN counters}

\* C14: on a malformed instance no operation is ever placed in a schedule and
\* no schedule is returned, judged or scored: the solver stops before that
C14_MalformedRejected ==
    Malformed => /\ schedule = <<>>
                 /\ pc = "place"
                 /\ candidate = None


\* the dictionary generate_all_constraints returned
Generated == constraints[1]

RECURSIVE SumSeq(_)
SumSeq(s) == IF s = <<>> THEN 0 ELSE Head(s) + SumSeq(Tail(s))

\* the number of unordered pairs of n things
Choose2(n) == (n * (n - 1)) \div 2

\* the patients that have an operation on a counter
PatientsHaving(counter) ==
    {PATIENTS[k] : k \in {i \in DOMAIN PATIENTS : HasKey(P_TIME[PATIENTS[i]], counter)}}

TotalOperations == SumSeq([k \in DOMAIN PATIENTS |-> Len(P_TIME[PATIENTS[k]])])

TotalEdges ==
    SumSeq([k \in DOMAIN PATIENTS |->
              IF PATIENTS[k] \in DOMAIN PRECEDENCE THEN Len(PRECEDENCE[PATIENTS[k]]) ELSE 0])

IsReference ==
    /\ PATIENTS = ReferenceInstance.PATIENTS
    /\ COUNTERS = ReferenceInstance.COUNTERS
    /\ P_TIME = ReferenceInstance.P_TIME
    /\ PRECEDENCE = ReferenceInstance.PRECEDENCE

\* C15: the capacity family has C(n,2) constraints per counter, n the number of
\* patients with an operation there; the precedence family one per edge; the
\* makespan family one per operation; the non-negativity family one more than
\* the operations; total is the sum of the four sizes, and the reference
\* instance gives 11 + 7 + 12 + 13 = 43
C15_ConstraintCounts ==
    pc = "generated" =>
        /\ Len(Generated.capacity) =
              SumSeq([k \in DOMAIN COUNTERS |-> Choose2(Cardinality(PatientsHaving(COUNTERS[k])))])
        /\ Len(Generated.precedence) = TotalEdges
        /\ Len(Generated.makespan) = TotalOperations
        /\ Len(Generated.non_negativity) = 1 + TotalOperations
        /\ Generated.total = Len(Generated.capacity) + Len(Generated.precedence)
                             + Len(Generated.makespan) + Len(Generated.non_negativity)
        /\ IsReference =>
              /\ Len(Generated.capacity) = 11
              /\ Len(Generated.precedence) = 7
              /\ Len(Generated.makespan) = 12
              /\ Len(Generated.non_negativity) = 13
              /\ Generated.total = 43

\* the constraints of the reference instance have been generated
C15_Witness ==
    /\ pc = "generated"
    /\ IsReference
    /\ Generated.total = 43
    /\ Len(Generated.capacity) = 11

\* C16: read in the order capacity, precedence, makespan, non-negativity, the
\* k-th constraint has number k, up to total; every capacity constraint is on
\* two distinct patients of its counter, and every unordered pair of distinct
\* patients sharing a counter has exactly one capacity constraint
C16_Numbering ==
    pc = "generated" =>
        LET all == Generated.capacity \o Generated.precedence
                   \o Generated.makespan \o Generated.non_negativity
            capacity == Generated.capacity
        IN  /\ Len(all) = Generated.total
            /\ \A k \in DOMAIN all : all[k][1] = k
            /\ \A k \in DOMAIN capacity :
                  /\ capacity[k][3] /= capacity[k][4]
                  /\ {capacity[k][3], capacity[k][4]} \subseteq PatientsHaving(capacity[k][2])
            /\ \A c \in DOMAIN COUNTERS :
                  \A p, q \in PatientsHaving(COUNTERS[c]) :
                      p /= q =>
                          Cardinality({k \in DOMAIN capacity :
                                          /\ capacity[k][2] = COUNTERS[c]
                                          /\ {capacity[k][3], capacity[k][4]} = {p, q}}) = 1

\* three patients share a counter and there are constraints of all four families
C16_Witness ==
    /\ pc = "generated"
    /\ \E c \in DOMAIN COUNTERS : Cardinality(PatientsHaving(COUNTERS[c])) = 3
    /\ Len(Generated.capacity) >= 3
    /\ Len(Generated.precedence) >= 1
    /\ Generated.total = Len(Generated.capacity) + Len(Generated.precedence)
                         + Len(Generated.makespan) + Len(Generated.non_negativity)


\* the candidate holds exactly the entries of the touching schedule
IsTouchingSchedule ==
    /\ candidate /= None
    /\ Len(candidate) = Len(TouchingSchedule)
    /\ {candidate[i] : i \in DOMAIN candidate}
          = {TouchingSchedule[i] : i \in DOMAIN TouchingSchedule}

\* C17: with the reference durations, the schedule P1 on counter 1 at [0,11),
\* P1 on counter 2 at [11,16), P5 on counter 1 at [11,22), P5 on counter 5 at
\* [22,37), in any order of its entries, is judged feasible and its makespan,
\* and so its fitness, is 37
C17_TouchingFeasible ==
    IsTouchingSchedule =>
        /\ pc \in {"judged", "scored"} => verdict = TRUE
        /\ pc = "scored" => fitness = 37
        /\ calculate_makespan(candidate) = 37

\* the touching schedule has been judged and scored
C17_Witness ==
    /\ IsTouchingSchedule
    /\ pc = "scored"
    /\ verdict = TRUE
    /\ fitness = 37


\* solve is between the evaluation of a generation and its replacement
Reproducing == pc \in {"elitism", "loop", "crossover", "mutate1", "mutate2", "extend"}

\* C18: nothing is evaluated before the population is initialized; while elites
\* and parents are chosen and offspring made in generation g, the fitnesses in
\* use are those of generation g's own population, computed once for that
\* generation (the history has g + 1 entries); the result exists only after
\* the last generation was replaced
C18_PhaseOrder ==
    /\ pc = "start" =>
          /\ population = <<>>
          /\ fitnesses = <<>>
          /\ best_fitness_history = <<>>
          /\ generation = 0
    /\ pc = "evaluate" =>
          /\ generation < generations
          /\ Len(population) = population_size
          /\ Len(best_fitness_history) = generation
    /\ Reproducing =>
          /\ generation < generations
          /\ Len(population) = population_size
          /\ Len(best_fitness_history) = generation + 1
    \* where the elites are about to be chosen, where parents are about to be
    \* drawn and where they have just been drawn
    /\ pc \in {"elitism", "loop", "crossover"} =>
          fitnesses = [i \in DOMAIN population |-> calculate_fitness(population[i])]
    /\ pc \in {"finish", "done"} =>
          /\ generation = generations
          /\ Len(best_fitness_history) = generations
    /\ result /= NotReturned <=> pc = "done"

\* in the second generation parents are drawn from a population with a feasible
\* member, after a first generation that had none
C18_Witness ==
    /\ pc = "crossover"
    /\ generation = 1
    /\ best_fitness_history[1] = INF
    /\ \E i \in DOMAIN fitnesses : fitnesses[i] < INF


\* C19: a call of order_crossover leaves both parents, and so the population,
\* as they were, and its two children either equal parent1 and parent2
\* respectively or are both schedules that create_random_schedule builds,
\* whatever the parents are
C19_CrossoverChildren ==
    [][pc = "crossover" =>
          /\ population' = population
          /\ \/ /\ child1' = population[parent1]
                /\ child2' = population[parent2]
             \/ /\ child1' \in RandomSchedules
                /\ child2' \in RandomSchedules]_vars

\* a crossover returned copies of two different parents, of which at least one
\* is not a schedule the constructor builds
C19_Witness ==
    /\ pc = "mutate1"
    /\ parent1 /= parent2
    /\ child1 = population[parent1]
    /\ child2 = population[parent2]
    /\ child1 /= child2
    /\ child1 \notin RandomSchedules \/ child2 \notin RandomSchedules


PatientDurations(patient) ==
    SumSeq([i \in DOMAIN operations[patient] |->
               processing_times[patient][operations[patient][i]]])

\* C21: in the returned result every patient's list is in order of
\* non-decreasing start, every entry carries the instance's duration and
\* end = start + duration, the largest end is the returned makespan, the
\* predecessor of every precedence edge comes before its successor in the
\* patient's list, and patient_times is the sum of the patient's durations
C21_ReturnedResult ==
    pc = "done" =>
        LET readable == Returned.schedule
            ends == UNION {{readable[p][i].end : i \in DOMAIN readable[p]} : p \in PatientSet}
        IN  /\ DOMAIN readable = PatientSet
            /\ \A p \in PatientSet :
                  /\ \A i \in 1..(Len(readable[p]) - 1) :
                        readable[p][i].start <= readable[p][i + 1].start
                  /\ \A i \in DOMAIN readable[p] :
                        /\ readable[p][i].duration = processing_times[p][readable[p][i].counter]
                        /\ readable[p][i].end = readable[p][i].start + readable[p][i].duration
                  /\ \A k \in DOMAIN PrecedenceOf(p) :
                        \E i, j \in DOMAIN readable[p] :
                            /\ i < j
                            /\ readable[p][i].counter = PrecedenceOf(p)[k][1]
                            /\ readable[p][j].counter = PrecedenceOf(p)[k][2]
                  /\ Returned.patient_times[p] = PatientDurations(p)
            /\ Returned.makespan \in ends
            /\ \A e \in ends : e <= Returned.makespan

\* solve returned a best schedule whose entries were not stored in order of start
C21_Witness ==
    /\ pc = "done"
    /\ best_overall_schedule /= SortByStart(best_overall_schedule)
    /\ Returned.makespan < INF


\* entries i and j of a schedule are the two ends of a precedence edge of their patient
IsEdge(sched, i, j) ==
    /\ sched[i][1] = sched[j][1]
    /\ \E k \in DOMAIN PrecedenceOf(sched[i][1]) :
          PrecedenceOf(sched[i][1])[k] = <<sched[i][2], sched[j][2]>>

\* C22: entries are appended in processing order, so an edge whose predecessor
\* was processed first has its predecessor at a smaller index; for each such
\* edge the predecessor completes no later than the successor starts, in the
\* schedule under construction and in the one returned
C22_ForwardEdgesHold ==
    /\ \A i, j \in DOMAIN schedule :
          (i < j /\ IsEdge(schedule, i, j)) => EndOf(schedule[i]) <= schedule[j][3]
    /\ pc \in {"built", "judged", "scored"} =>
          /\ Len(candidate) = Len(all_operations)
          /\ \A i \in DOMAIN candidate :
                /\ candidate[i][1] = all_operations[i][1]
                /\ candidate[i][2] = all_operations[i][2]
          /\ \A i, j \in DOMAIN candidate :
                (i < j /\ IsEdge(candidate, i, j)) => EndOf(candidate[i]) <= candidate[j][3]

\* a schedule was returned for an order that processes both ends of a two-edge
\* chain forwards
C22_Witness ==
    /\ pc = "built"
    /\ \E i, j, k \in DOMAIN candidate :
          /\ i < j
          /\ j < k
          /\ IsEdge(candidate, i, j)
          /\ IsEdge(candidate, j, k)
          /\ EndOf(candidate[i]) <= candidate[j][3]

\* C23: any two distinct operations on one counter do not overlap, at every
\* point of the construction and in the returned schedule, and every operation
\* placed on a counter starts at or after the completion of every operation
\* placed there before it (the counter's next-available time, which is the
\* completion of the last one placed)
C23_CounterCapacity ==
    /\ NoOverlap(schedule)
    /\ \A i, j \in DOMAIN schedule :
          (i < j /\ schedule[i][2] = schedule[j][2]) => EndOf(schedule[i]) <= schedule[j][3]
    /\ \A k \in DOMAIN counters :
          \A i \in DOMAIN schedule :
              schedule[i][2] = counters[k] => EndOf(schedule[i]) <= counter_available_time[counters[k]]
    /\ pc \in {"built", "judged", "scored"} => NoOverlap(candidate)

\* a schedule with two operations of different patients on one counter was returned
C23_Witness ==
    /\ pc = "built"
    /\ \E i, j \in DOMAIN candidate :
          /\ i /= j
          /\ candidate[i][2] = candidate[j][2]
          /\ candidate[i][1] /= candidate[j][1]


\* the processing order places the predecessor of every edge before its successor
OrderRespectsEdges ==
    \A i, j \in DOMAIN all_operations :
        IsEdge(all_operations, i, j) => i < j

\* C26: the returned schedule is judged feasible exactly when the processing
\* order places the predecessor of every edge before its successor; a
\* predecessor processed after its successor starts at or after the
\* successor's completion, the schedule is then infeasible and its fitness is
\* the sentinel
C26_FeasibleIffOrdered ==
    /\ pc \in {"built", "judged", "scored"} =>
          \A i, j \in DOMAIN candidate :
              (j < i /\ IsEdge(candidate, i, j)) =>
                  /\ candidate[i][3] >= EndOf(candidate[j])
                  /\ ~PrecedenceHolds(candidate)
    /\ (pc \in {"judged", "scored"} /\ all_operations /= <<>>) =>
          (verdict <=> OrderRespectsEdges)
    /\ (pc = "scored" /\ all_operations /= <<>>) =>
          (fitness = INF <=> ~OrderRespectsEdges)

\* an order that processes a successor before its predecessor was scored
C26_Witness ==
    /\ pc = "scored"
    /\ all_operations /= <<>>
    /\ ~OrderRespectsEdges
    /\ verdict = FALSE
    /\ fitness = INF


\* the next operation of the processing order is still to be placed
PlacePending == pc = "place" /\ Len(schedule) < Len(all_operations)

\* the operation to be placed next is the successor of an edge whose
\* predecessor is already in the schedule (the branch of lines 54-57 is taken)
TighteningApplies ==
    /\ PlacePending
    /\ LET op == all_operations[Len(schedule) + 1]
       IN  \E i \in DOMAIN schedule :
              /\ schedule[i][1] = op[1]
              /\ \E k \in DOMAIN PrecedenceOf(op[1]) :
                    PrecedenceOf(op[1])[k] = <<schedule[i][2], op[2]>>

\* C27: every placed operation completes no later than its patient's running
\* completion time, so at every pass of the loop the start the code computes
\* with the tightening of lines 52-57 is the start without it,
\* max(counter_available_time[counter], patient_completion_time[patient]); the
\* schedule is built from these starts one by one, so it is the same schedule
C27_TighteningRedundant ==
    /\ pc = "place" =>
          \A i \in DOMAIN schedule :
              EndOf(schedule[i]) <= patient_completion_time[schedule[i][1]]
    /\ PlacePending =>
          LET op == all_operations[Len(schedule) + 1]
          IN  EarliestStart(op[1], op[2], schedule, counter_available_time,
                            patient_completion_time)
                 = Max(counter_available_time[op[2]], patient_completion_time[op[1]])

\* a successor is about to be placed after its predecessor, on a counter that
\* is free before the predecessor completes
C27_Witness ==
    /\ TighteningApplies
    /\ LET op == all_operations[Len(schedule) + 1]
       IN  counter_available_time[op[2]] < patient_completion_time[op[1]]

\* the sum of the durations of the operations on a counter
CounterDurations(counter) ==
    SumSeq([i \in DOMAIN AllOperations |->
               IF AllOperations[i][2] = counter
               THEN processing_times[AllOperations[i][1]][counter]
               ELSE 0])

\* the sum of the durations of all operations
TotalDurations ==
    SumSeq([i \in DOMAIN AllOperations |->
               processing_times[AllOperations[i][1]][AllOperations[i][2]]])

\* C28: in the returned schedule no two operations of one patient overlap, and
\* the makespan is at least every patient's sum of durations and every
\* counter's sum of durations, and at most the sum of all durations
C28_PatientSerialAndBounds ==
    (pc \in {"built", "judged", "scored"} /\ all_operations /= <<>>) =>
        /\ \A i, j \in DOMAIN candidate :
              (i /= j /\ candidate[i][1] = candidate[j][1]) =>
                  (EndOf(candidate[i]) <= candidate[j][3] \/ EndOf(candidate[j]) <= candidate[i][3])
        /\ \A p \in PatientSet : calculate_makespan(candidate) >= PatientDurations(p)
        /\ \A k \in DOMAIN counters : calculate_makespan(candidate) >= CounterDurations(counters[k])
        /\ calculate_makespan(candidate) <= TotalDurations

\* a returned schedule of two patients whose makespan is strictly between the
\* largest single sum and the sum of all durations
C28_Witness ==
    /\ pc = "built"
    /\ all_operations /= <<>>
    /\ Len(patients) = 2
    /\ calculate_makespan(candidate) < TotalDurations
    /\ \A p \in PatientSet : calculate_makespan(candidate) > PatientDurations(p)
    /\ \A k \in DOMAIN counters : calculate_makespan(candidate) > CounterDurations(counters[k])


\* after is before, or before with the start of one entry replaced by
\* max(0, start + offset) for an offset in [-MutationRange, MutationRange];
\* patients, counters and the order of the entries are those of before
OneStartMoved(before, after) ==
    \/ after = before
    \/ \E idx \in DOMAIN before : \E offset \in (-MutationRange)..MutationRange :
          after = [before EXCEPT ![idx] = <<@[1], @[2], Max(0, @[3] + offset)>>]

\* C24: a call of mutate returns its input with at most one start time changed,
\* to max(0, old start + offset) with the offset within [-10, 10], every
\* (patient, counter) being kept; a call that does not fire returns its input
C24_MutateOneStart ==
    [][/\ pc = "mutate1" =>
             /\ OneStartMoved(child1, child1')
             /\ mutations' = mutations => child1' = child1
       /\ pc = "mutate2" =>
             /\ OneStartMoved(child2, child2')
             /\ mutations' = mutations => child2' = child2]_vars

\* a mutation fired on the first child and changed a start time
C24_Witness ==
    /\ pc = "mutate2"
    /\ mutations = 1
    /\ Len(child1) = Len(mutate_arg)
    /\ \E i \in DOMAIN child1 :
          /\ child1[i][3] /= mutate_arg[i][3]
          /\ \A j \in DOMAIN child1 : j /= i => child1[j] = mutate_arg[j]


\* the number of precedence edges of the reference data
PaperEdges ==
    SumSeq([k \in DOMAIN paper_data.patients |->
               Len(paper_data.precedence[paper_data.patients[k]])])

\* C25: verify_constraints finds no violation in the schedule
\* solve_with_paper_schedule returns: no two operations on a counter overlap,
\* each of the 7 precedence edges has its predecessor end no later than its
\* successor starts, all starts and ends are non-negative; every entry carries
\* the instance's duration with end = start + duration; the makespan is 61
C25_PaperScheduleVerified ==
    paper_schedule = optimal_schedule =>
        /\ PaperEdges = 7
        /\ \A p \in DOMAIN paper_schedule : \A i \in DOMAIN paper_schedule[p] :
              LET op == paper_schedule[p][i]
              IN  /\ HasKey(paper_data.processing_times[p], op.counter)
                  /\ \A k \in DOMAIN paper_data.processing_times[p] :
                        paper_data.processing_times[p][k][1] = op.counter =>
                            op.duration = paper_data.processing_times[p][k][2]
                  /\ op.end = op.start + op.duration
        /\ pc \in {"precedence", "makespan", "non_negativity", "verified"} =>
              violations = <<>>
        /\ pc \in {"non_negativity", "verified"} => paper_makespan = 61
        /\ pc = "verified" =>
              /\ all_positive = TRUE
              /\ constraints_ok = TRUE

\* verify_constraints has answered on the paper schedule
C25_Witness ==
    /\ pc = "verified"
    /\ paper_schedule = optimal_schedule
    /\ constraints_ok = TRUE
    /\ paper_makespan = 61


\* a schedule holds one entry for every operation of ops, a list of distinct
\* (patient, counter) pairs, and nothing else
OneEntryPerOperation(sched, ops) ==
    /\ Len(sched) = Len(ops)
    /\ \A k \in DOMAIN ops :
          \E i \in DOMAIN sched : sched[i][1] = ops[k][1] /\ sched[i][2] = ops[k][2]

\* C29: every member of the population, of the population being built for the
\* next generation, and every child on its way there, holds exactly one entry
\* for every (patient, counter) operation of the instance and no other entry
C29_MembersComplete ==
    LET ops == AllOperations
    IN  /\ \A i \in DOMAIN population : OneEntryPerOperation(population[i], ops)
        /\ \A i \in DOMAIN new_population : OneEntryPerOperation(new_population[i], ops)
        /\ pc \in {"mutate1", "mutate2", "extend"} =>
              /\ OneEntryPerOperation(child1, ops)
              /\ OneEntryPerOperation(child2, ops)
        /\ pc = "done" => OneEntryPerOperation(best_overall_schedule, ops)

\* the second generation's population holds an elite, and a member that a
\* mutation has changed
C29_Witness ==
    /\ pc = "evaluate"
    /\ generation >= 1
    /\ elite_size >= 1
    /\ mutations = 1
    /\ \E i \in DOMAIN population : population[i] \notin RandomSchedules
    /\ \A i \in DOMAIN population : OneEntryPerOperation(population[i], AllOperations)

\* the tournament is larger than the population and an offspring is needed
TournamentTooLarge ==
    /\ tournament_size > population_size
    /\ elite_size < population_size

\* C30: with a tournament larger than the population and fewer elites than
\* members, solve gets no further than the first selection of generation 0:
\* there no parents can be drawn and the only step is the failure with
\* ValueError; no parent is ever selected, no generation completes and no
\* result is returned
C30_OversizedTournamentFails ==
    TournamentTooLarge =>
        /\ pc \in {"start", "evaluate", "elitism", "loop", "failed"}
        /\ generation = 0
        /\ parent1 = NoParent
        /\ parent2 = NoParent
        /\ result = NotReturned
        /\ pc = "loop" =>
              /\ Len(new_population) < population_size
              /\ ENABLED SelectFails
              /\ ~ENABLED Select
              /\ ~ENABLED Replace
        /\ pc = "failed" => error = "ValueError"
        /\ pc /= "failed" => error = NoError

\* solve failed at the first selection although a feasible member had been found
C30_Witness ==
    /\ TournamentTooLarge
    /\ pc = "failed"
    /\ error = "ValueError"
    /\ generation = 0
    /\ best_overall_fitness < INF
    /\ result = NotReturned

====
